---- MODULE Spec2Model ----
(***************************************************************************)
(* Model of apps/src/sendto.rs (quiche): the send_to() wrapper and its     *)
(* three transmission strategies, send_to_gso() (one sendmsg() with a      *)
(* UDP_SEGMENT control message), send_to_sendmmsg() (one sendmmsg() over a *)
(* vector of per-segment messages) and the per-segment socket.send_to()    *)
(* loop.  The operating system is the environment: every underlying call   *)
(* is recorded in `log` together with the outcome the platform reported.   *)
(***************************************************************************)
EXTENDS Integers, Sequences, FiniteSets, TLC

(* ---- bounds of the model ---- *)
MaxLen == 5
MaxSeg == 3
MaxShort == 1

(* u16 has 2^16 values: `segment_size as u16` keeps the low 16 bits *)
U16Mod == 65536

(* target_os values; android stands for android, freebsd and netbsd, which *)
(* compile the same variants; other is every remaining target              *)
Platforms == {"linux", "android", "other"}

(* <<buf.len(), segment_size>> pairs a call is made with: every small     *)
(* pair, the 3000/1200 example, and segment sizes that do not fit in u16.  *)
(* segment_size is positive (a zero segment size is outside the contract). *)
Requests ==
    ((0 .. MaxLen) \X (1 .. MaxSeg))
        \cup {<<3000, 1200>>}
        \cup ((0 .. MaxLen) \X {U16Mod, U16Mod + 2})

Errnos == {"EAGAIN", "EMSGSIZE"}

(* nix::Error values an underlying nix call can fail with *)
NixErrors ==
    {[kind |-> "Sys", code |-> e, inner |-> ""] : e \in Errnos}
        \cup {[kind |-> "UnsupportedOperation", code |-> "", inner |-> ""]}

NoErr == [kind |-> "None", code |-> "", inner |-> ""]

(* io::Error values socket.send_to() can fail with *)
IoErrors == {[kind |-> "Os", code |-> e, inner |-> ""] : e \in Errnos}

(* match e.as_errno() { Some(v) => io::Error::from(v),                     *)
(*                      None => io::Error::new(ErrorKind::Other, e) }      *)
Translate(e) ==
    IF e.kind = "Sys"
    THEN [kind |-> "Os", code |-> e.code, inner |-> ""]
    ELSE [kind |-> "Other", code |-> "", inner |-> e.kind]

(* io::Result<usize> values, plus the panic of the unsupported variants *)
NoRet == [tag |-> "none", val |-> 0, err |-> NoErr]
Ok(v) == [tag |-> "Ok", val |-> v, err |-> NoErr]
Err(e) == [tag |-> "Err", val |-> 0, err |-> e]
Panic == [tag |-> "panic", val |-> 0, err |-> NoErr]

Min(a, b) == IF a < b THEN a ELSE b

RECURSIVE SumSeq(_)
SumSeq(s) == IF s = <<>> THEN 0 ELSE Head(s) + SumSeq(Tail(s))

(* byte counts the platform may report for a payload of n bytes *)
Accepted(n) == {v \in 0 .. n : n - v <= MaxShort}

VARIABLES
    os,               \* target_os the crate was built for
    pc,               \* position of the caller / of send_to()
    buf_len,          \* buf.len()
    segment_size,
    enable_gso,
    enable_sendmmsg,
    off, left,        \* loop variables (lines 124-125 and 201-202)
    written,          \* line 203
    iovs,             \* line 128: sequence of <<start, length>> slices
    inner,            \* what send_to_gso() / send_to_sendmmsg() returned
    ret,              \* what send_to() returned
    log               \* the underlying calls issued during this call

vars == <<os, pc, buf_len, segment_size, enable_gso, enable_sendmmsg,
          off, left, written, iovs, inner, ret, log>>

(* one underlying call: the primitive, the slices it carried, the GSO      *)
(* segment hint (-1 when there is none) and what the platform reported     *)
Entry(prim, slices, hint, ok, counts, e) ==
    [prim |-> prim, slices |-> slices, hint |-> hint,
     ok |-> ok, counts |-> counts, err |-> e]

Init ==
    /\ os \in Platforms
    /\ pc = "idle"
    /\ buf_len = 0
    /\ segment_size = 1
    /\ enable_gso = FALSE
    /\ enable_sendmmsg = FALSE
    /\ off = 0
    /\ left = 0
    /\ written = 0
    /\ iovs = <<>>
    /\ inner = NoRet
    /\ ret = NoRet
    /\ log = <<>>

(* variant of Select that looks at enable_sendmmsg first *)
SelectBatchFirst(gso, mmsg) ==
    IF mmsg THEN "sendmmsg" ELSE IF gso THEN "gso" ELSE "naive"

(* send_to(), lines 179 and 190: which strategy the flags select *)
Select(gso, mmsg) ==
    IF gso THEN "gso" ELSE IF mmsg THEN "sendmmsg" ELSE "naive"

(* the caller enters send_to(); lines 175-203 up to the selected strategy *)
Call ==
    /\ pc = "idle"
    /\ \E r \in Requests, g \in BOOLEAN, m \in BOOLEAN :
        /\ buf_len' = r[1]
        /\ segment_size' = r[2]
        /\ enable_gso' = g
        /\ enable_sendmmsg' = m
        /\ pc' = Select(g, m)
        /\ left' = r[1]
    /\ off' = 0
    /\ written' = 0
    /\ iovs' = <<>>
    /\ inner' = NoRet
    /\ ret' = NoRet
    /\ log' = <<>>
    /\ UNCHANGED os

(* variant of AfterGso that goes on to the next strategy on an error *)
AfterGsoFallThrough(r) ==
    IF r.tag = "Err"
    THEN [pc |-> IF enable_sendmmsg THEN "sendmmsg" ELSE "naive", ret |-> NoRet]
    ELSE [pc |-> "done", ret |-> r]

(* send_to(), lines 180-187: both arms of the match return the result *)
AfterGso(r) == [pc |-> "done", ret |-> r]

(* let segment_size = segment_size as u16 (line 64) *)
GsoHint(size) == size % U16Mod

(* send_to_gso(), linux variant (lines 51-84), called by send_to() *)
SendToGso ==
    /\ pc = "gso"
    /\ os = "linux"
    /\ LET hint == GsoHint(segment_size)
           iov == <<<<0, buf_len>>>>
       IN \/ \E v \in Accepted(buf_len) :
                /\ log' = Append(log, Entry("sendmsg", iov, hint, TRUE, <<v>>, NoErr))
                /\ inner' = Ok(v)
          \/ \E e \in NixErrors :
                /\ log' = Append(log, Entry("sendmsg", iov, hint, FALSE, <<>>, e))
                /\ inner' = Err(Translate(e))
    /\ pc' = AfterGso(inner').pc
    /\ ret' = AfterGso(inner').ret
    /\ UNCHANGED <<os, buf_len, segment_size, enable_gso, enable_sendmmsg,
                   off, left, written, iovs>>

(* variant of SendToGsoUnsupported that degrades to the per-segment loop *)
SendToGsoUnsupportedFallback ==
    /\ pc = "gso"
    /\ os # "linux"
    /\ pc' = "naive"
    /\ UNCHANGED <<os, buf_len, segment_size, enable_gso, enable_sendmmsg,
                   off, left, written, iovs, inner, ret, log>>

(* send_to_gso(), non-linux variant (lines 87-93) *)
SendToGsoUnsupported ==
    /\ pc = "gso"
    /\ os # "linux"
    /\ ret' = Panic
    /\ pc' = "panicked"
    /\ UNCHANGED <<os, buf_len, segment_size, enable_gso, enable_sendmmsg,
                   off, left, written, iovs, inner, log>>

(* cfg(any(linux, android, freebsd, netbsd)), lines 104-109 *)
HasSendmmsg == os \in {"linux", "android"}

(* variant of SendmmsgSplit that takes segment_size without cmp::min *)
SendmmsgSplitNoMin ==
    /\ pc = "sendmmsg"
    /\ HasSendmmsg
    /\ left > 0
    /\ LET pkt_len == segment_size
       IN /\ iovs' = Append(iovs, <<off, pkt_len>>)
          /\ off' = off + pkt_len
          /\ left' = IF left > pkt_len THEN left - pkt_len ELSE 0
    /\ UNCHANGED <<os, pc, buf_len, segment_size, enable_gso, enable_sendmmsg,
                   written, inner, ret, log>>

(* send_to_sendmmsg(), one iteration of the splitting loop (lines 130-137) *)
SendmmsgSplit ==
    /\ pc = "sendmmsg"
    /\ HasSendmmsg
    /\ left > 0
    /\ LET pkt_len == Min(left, segment_size)
       IN /\ iovs' = Append(iovs, <<off, pkt_len>>)
          /\ off' = off + pkt_len
          /\ left' = left - pkt_len
    /\ UNCHANGED <<os, pc, buf_len, segment_size, enable_gso, enable_sendmmsg,
                   written, inner, ret, log>>

(* what sendmmsg() may report for a message vector: the byte counts of a   *)
(* prefix of the messages, at least one when the vector is not empty       *)
RECURSIVE Prefixes(_)
Prefixes(ms) ==
    IF ms = <<>>
    THEN {<<>>}
    ELSE {<<>>} \cup {<<v>> \o r : v \in Accepted(Head(ms)[2]), r \in Prefixes(Tail(ms))}

Reports(ms) == IF ms = <<>> THEN {<<>>} ELSE Prefixes(ms) \ {<<>>}

(* variants of SumResults: the number of messages sent, and the whole      *)
(* buffer assumed sent                                                     *)
SumResultsCount(results) == Len(results)
SumResultsAssumeAll(results) == buf_len

(* Ok(results) => Ok(results.iter().sum()), line 149 *)
SumResults(results) == SumSeq(results)

(* send_to(), lines 191-198: both arms of the match return the result *)
AfterSendmmsg(r) == [pc |-> "done", ret |-> r]

(* send_to_sendmmsg() after the loop: one message per slice and the single *)
(* sendmmsg() call (lines 139-154)                                         *)
SendmmsgSubmit ==
    /\ pc = "sendmmsg"
    /\ HasSendmmsg
    /\ left = 0
    /\ LET msgs == iovs
       IN \/ \E results \in Reports(msgs) :
                /\ log' = Append(log, Entry("sendmmsg", msgs, -1, TRUE, results, NoErr))
                /\ inner' = Ok(SumResults(results))
          \/ \E e \in NixErrors :
                /\ log' = Append(log, Entry("sendmmsg", msgs, -1, FALSE, <<>>, e))
                /\ inner' = Err(Translate(e))
    /\ pc' = AfterSendmmsg(inner').pc
    /\ ret' = AfterSendmmsg(inner').ret
    /\ UNCHANGED <<os, buf_len, segment_size, enable_gso, enable_sendmmsg,
                   off, left, written, iovs>>

(* send_to_sendmmsg(), variant of the other platforms (lines 158-169) *)
SendToSendmmsgUnsupported ==
    /\ pc = "sendmmsg"
    /\ ~HasSendmmsg
    /\ ret' = Panic
    /\ pc' = "panicked"
    /\ UNCHANGED <<os, buf_len, segment_size, enable_gso, enable_sendmmsg,
                   off, left, written, iovs, inner, log>>

(* variant of NaiveSend that goes on to the next segment after an error *)
NaiveSendSkipError ==
    /\ pc = "naive"
    /\ left > 0
    /\ LET pkt_len == Min(left, segment_size)
           slice == <<<<off, pkt_len>>>>
       IN /\ \/ \E v \in Accepted(pkt_len) :
                   /\ log' = Append(log, Entry("send_to", slice, -1, TRUE, <<v>>, NoErr))
                   /\ written' = written + v
             \/ \E e \in IoErrors :
                   /\ log' = Append(log, Entry("send_to", slice, -1, FALSE, <<>>, e))
                   /\ written' = written
          /\ off' = off + pkt_len
          /\ left' = left - pkt_len
    /\ UNCHANGED <<os, pc, buf_len, segment_size, enable_gso, enable_sendmmsg,
                   iovs, inner, ret>>

(* send_to(), one iteration of the per-segment loop (lines 205-217) *)
NaiveSend ==
    /\ pc = "naive"
    /\ left > 0
    /\ LET pkt_len == Min(left, segment_size)
           slice == <<<<off, pkt_len>>>>
       IN \/ \E v \in Accepted(pkt_len) :
                /\ log' = Append(log, Entry("send_to", slice, -1, TRUE, <<v>>, NoErr))
                /\ written' = written + v
                /\ off' = off + pkt_len
                /\ left' = left - pkt_len
                /\ UNCHANGED <<pc, ret>>
          \/ \E e \in IoErrors :
                /\ log' = Append(log, Entry("send_to", slice, -1, FALSE, <<>>, e))
                /\ ret' = Err(e)
                /\ pc' = "done"
                /\ UNCHANGED <<written, off, left>>
    /\ UNCHANGED <<os, buf_len, segment_size, enable_gso, enable_sendmmsg,
                   iovs, inner>>

(* send_to(), the loop is over: Ok(written) (line 219) *)
NaiveReturn ==
    /\ pc = "naive"
    /\ left = 0
    /\ ret' = Ok(written)
    /\ pc' = "done"
    /\ UNCHANGED <<os, buf_len, segment_size, enable_gso, enable_sendmmsg,
                   off, left, written, iovs, inner, log>>

(* the caller takes the result; nothing is retained between calls *)
Return ==
    /\ pc = "done"
    /\ pc' = "idle"
    /\ UNCHANGED <<os, buf_len, segment_size, enable_gso, enable_sendmmsg,
                   off, left, written, iovs, inner, ret, log>>

Next ==
    \/ Call
    \/ SendToGso
    \/ SendToGsoUnsupported
    \/ SendmmsgSplit
    \/ SendmmsgSubmit
    \/ SendToSendmmsgUnsupported
    \/ NaiveSend
    \/ NaiveReturn
    \/ Return

Spec == Init /\ [][Next]_vars

(* ======================= properties ======================= *)

(* the primitive the flags are expected to lead to, spelled out from the   *)
(* priority order: offload, then batch, then the per-segment loop          *)
ExpectedPrim ==
    IF enable_gso THEN "sendmsg"
    ELSE IF enable_sendmmsg THEN "sendmmsg" ELSE "send_to"

ExpectedPc ==
    IF enable_gso THEN "gso"
    ELSE IF enable_sendmmsg THEN "sendmmsg" ELSE "naive"

InCall == pc \in {"gso", "sendmmsg", "naive"}

Returned == pc \in {"done", "idle"}

Prims(l) == {l[i].prim : i \in 1 .. Len(l)}

Lengths(slices) == [i \in 1 .. Len(slices) |-> slices[i][2]]

(* C1 as stated: in every completed call exactly one strategy, the one the *)
(* flags select, has issued underlying transmissions.                      *)
C1_ExactlyOneStrategyTransmits ==
    pc = "done" => Prims(log) = {ExpectedPrim}

(* C1 amended: the strategy that runs is the one the flags select in the   *)
(* fixed priority order, only that strategy issues underlying              *)
(* transmissions, and it has issued at least one when the call returns     *)
(* for a non-empty buffer.                                                 *)
C1_OnlySelectedStrategyTransmits ==
    /\ InCall => pc = ExpectedPc
    /\ Prims(log) \subseteq {ExpectedPrim}
    /\ (pc = "done" /\ buf_len > 0) => Prims(log) = {ExpectedPrim}

C1_Witness ==
    /\ pc = "done"
    /\ enable_gso /\ enable_sendmmsg
    /\ buf_len > 0
    /\ Prims(log) = {"sendmsg"}

(* C2: the result of the selected Offload or Batch strategy is what        *)
(* send_to returns, and a failed sendmsg()/sendmmsg() is the last          *)
(* underlying call of the call: its translated error is returned and no    *)
(* other strategy transmits.                                               *)
C2_ResultReturnedVerbatim ==
    /\ (pc = "done" /\ (enable_gso \/ enable_sendmmsg)) =>
          /\ inner.tag \in {"Ok", "Err"}
          /\ ret = inner
          /\ Len(log) = 1
          /\ log[1].prim = ExpectedPrim
    /\ \A i \in 1 .. Len(log) :
          (log[i].prim \in {"sendmsg", "sendmmsg"} /\ ~log[i].ok) =>
              /\ i = Len(log)
              /\ Returned
              /\ ret = Err(Translate(log[i].err))

C2_Witness ==
    /\ pc = "done"
    /\ enable_gso /\ enable_sendmmsg
    /\ Len(log) = 1
    /\ ~log[1].ok
    /\ ret.tag = "Err"

(* C3: in the Naive path a failed send of segment k (0-indexed) is the     *)
(* last underlying call: the call has made k+1 attempts, has returned      *)
(* exactly that error, and carries no byte count.                          *)
C3_NaiveStopsAtFirstFailure ==
    \A i \in 1 .. Len(log) :
        (log[i].prim = "send_to" /\ ~log[i].ok) =>
            /\ log[i].slices[1][1] = (i - 1) * segment_size
            /\ Len(log) = i
            /\ Returned
            /\ ret = Err(log[i].err)

C3_Witness ==
    /\ pc = "done"
    /\ ~enable_gso /\ ~enable_sendmmsg
    /\ buf_len > 2 * segment_size
    /\ Len(log) = 2
    /\ log[1].ok
    /\ ~log[2].ok
    /\ ret.tag = "Err"

(* C4 as stated: a call with a zero-length buffer returns Ok(0) and has    *)
(* made no underlying transmission call, whichever strategy is selected.   *)
C4_EmptyBufferNoTransmission ==
    (pc = "done" /\ buf_len = 0) => (ret = Ok(0) /\ log = <<>>)

(* the ranges [0,S), [S,2S), ..., [k*S, L) in closed form *)
NumSegments(L, S) == (L + S - 1) \div S

Partition(L, S) ==
    [i \in 1 .. NumSegments(L, S) |-> <<(i - 1) * S, Min(S, L - (i - 1) * S)>>]

IsPrefix(s, t) == Len(s) <= Len(t) /\ s = SubSeq(t, 1, Len(s))

(* contiguous from 0, non-empty, at most S long, all but the last exactly  *)
(* S long, lengths summing to L                                            *)
IsExactPartition(slices, L, S) ==
    /\ \A i \in 1 .. Len(slices) :
          /\ slices[i][1] = IF i = 1 THEN 0 ELSE slices[i - 1][1] + slices[i - 1][2]
          /\ slices[i][2] > 0
          /\ slices[i][2] <= S
          /\ i < Len(slices) => slices[i][2] = S
    /\ SumSeq(Lengths(slices)) = L

NaiveSlices == [i \in 1 .. Len(log) |-> log[i].slices[1]]

(* C5: the slices the Batch path puts in its message vector and the slices *)
(* the Naive path sends, in order, are both the sequence [0,S), [S,2S),    *)
(* ..., [k*S, L): an exact partition of the buffer (empty for L = 0), with *)
(* lengths 1200, 1200, 600 for L = 3000 and S = 1200.                      *)
C5_SameExactPartition ==
    LET P == Partition(buf_len, segment_size)
    IN /\ pc = "sendmmsg" =>
             /\ IsPrefix(iovs, P)
             /\ left = 0 => iovs = P
       /\ \A i \in 1 .. Len(log) :
             log[i].prim = "sendmmsg" =>
                 /\ log[i].slices = P
                 /\ IsExactPartition(log[i].slices, buf_len, segment_size)
                 /\ (buf_len = 3000 /\ segment_size = 1200) =>
                        Lengths(log[i].slices) = <<1200, 1200, 600>>
       /\ Prims(log) = {"send_to"} =>
             /\ IsPrefix(NaiveSlices, P)
             /\ (pc = "done" /\ ret.tag = "Ok") =>
                    /\ NaiveSlices = P
                    /\ IsExactPartition(NaiveSlices, buf_len, segment_size)
                    /\ (buf_len = 3000 /\ segment_size = 1200) =>
                           Lengths(NaiveSlices) = <<1200, 1200, 600>>

C5_Witness ==
    /\ pc = "done"
    /\ ~enable_gso /\ enable_sendmmsg
    /\ buf_len = 3000
    /\ Len(log) = 1
    /\ Lengths(log[1].slices) = <<1200, 1200, 600>>

(* every underlying call succeeded and accepted every slice whole *)
AllAcceptedWhole ==
    \A i \in 1 .. Len(log) :
        /\ log[i].ok
        /\ log[i].counts = Lengths(log[i].slices)

(* C6: when every underlying transmission succeeds and accepts its whole   *)
(* segment, the Naive path and the Batch path return Ok(L).                *)
C6_FullSuccessReturnsLength ==
    (pc = "done" /\ ~enable_gso /\ AllAcceptedWhole) => ret = Ok(buf_len)

C6_Witness ==
    /\ pc = "done"
    /\ ~enable_gso /\ ~enable_sendmmsg
    /\ AllAcceptedWhole
    /\ Len(log) = 3
    /\ ret = Ok(buf_len)

(* C7 as stated: in the Naive path a send that succeeds with fewer bytes   *)
(* than its segment is followed by no later send in the same call.         *)
C7_NoSendAfterPartialAcceptance ==
    \A i \in 1 .. Len(log) :
        (/\ log[i].prim = "send_to"
         /\ log[i].ok
         /\ log[i].counts[1] < log[i].slices[1][2]) => i = Len(log)

(* the strategy the flags select is not compiled for the platform *)
Unsupported ==
    \/ enable_gso /\ os # "linux"
    \/ ~enable_gso /\ enable_sendmmsg /\ os = "other"

(* C8: a call whose selected strategy the platform lacks never returns a   *)
(* result and issues no underlying transmission: it is about to panic or   *)
(* has panicked, and no other strategy is entered.                         *)
C8_UnsupportedPanics ==
    (Unsupported /\ pc # "idle") =>
        /\ pc \in {ExpectedPc, "panicked"}
        /\ log = <<>>
        /\ pc = "panicked" => ret = Panic
        /\ pc # "panicked" => ret = NoRet

C8_Witness ==
    /\ os = "android"
    /\ enable_gso /\ enable_sendmmsg
    /\ pc = "panicked"
    /\ ret = Panic
    /\ log = <<>>

(* the byte counts the platform reported for the underlying calls so far *)
RECURSIVE TotalReported(_)
TotalReported(l) ==
    IF l = <<>> THEN 0
    ELSE TotalReported(SubSeq(l, 1, Len(l) - 1)) + SumSeq(l[Len(l)].counts)

(* C9: a successful Batch or Naive call returns the sum of the byte counts *)
(* the platform reported, and the Batch path returns an error exactly when *)
(* the sendmmsg() call itself failed.                                      *)
C9_CountIsSumOfReported ==
    (pc = "done" /\ ~enable_gso) =>
        /\ ret.tag \in {"Ok", "Err"}
        /\ ret.tag = "Ok" => ret.val = TotalReported(log)
        /\ enable_sendmmsg => (ret.tag = "Err" <=> ~log[1].ok)

C9_Witness ==
    /\ pc = "done"
    /\ ~enable_gso /\ enable_sendmmsg
    /\ log[1].ok
    /\ Len(log[1].counts) < Len(log[1].slices)
    /\ ret = Ok(SumSeq(log[1].counts))
    /\ ret.val < buf_len - MaxShort

(* C10 as stated: the Offload path issues one transmission over the whole  *)
(* buffer whose segment-size hint equals the caller's segment_size.        *)
C10_HintIsSegmentSize ==
    \A i \in 1 .. Len(log) :
        log[i].prim = "sendmsg" =>
            /\ Len(log) = 1
            /\ log[i].slices = <<<<0, buf_len>>>>
            /\ log[i].hint = segment_size

====
